---------------------------- MODULE Spec2Model ----------------------------
(***************************************************************************)
(* Model of the two load-test analysis scripts of the repository:          *)
(*   src/analysis/analyze_performance.py  (multi-run driver, process_jtl)  *)
(*   src/load-tesst/scripts/analyze.py    (single-file JMeterAnalyzer)     *)
(*                                                                         *)
(* Text values (labels, response codes) are sequences of one-character     *)
(* strings; an empty CSV cell is the empty sequence and is read by pandas  *)
(* as NaN.  Floating point values are exact rationals [nan, num, den].     *)
(***************************************************************************)
EXTENDS Integers, Sequences, FiniteSets, TLC

\* ------------------------------------------------------------------ bounds
MaxRecords == 3
MaxRuns == 3

\* ------------------------------------------------------- numeric helpers
Float(n, d) == [nan |-> FALSE, num |-> n, den |-> d]
NaN == [nan |-> TRUE, num |-> 0, den |-> 1]
Zero == Float(0, 1)

\* a / b for exact rationals (b's numerator is positive where this is used)
FloatDiv(a, b) ==
    IF a.nan \/ b.nan THEN NaN ELSE Float(a.num * b.den, a.den * b.num)

FloatEq(a, b) == ~a.nan /\ ~b.nan /\ a.num * b.den = b.num * a.den
FloatGt(a, b) == ~a.nan /\ ~b.nan /\ a.num * b.den > b.num * a.den

RECURSIVE Insert(_, _)
Insert(x, s) ==
    IF s = <<>> THEN <<x>>
    ELSE IF x <= Head(s) THEN <<x>> \o s
    ELSE <<Head(s)>> \o Insert(x, Tail(s))

RECURSIVE Sorted(_)
Sorted(s) == IF s = <<>> THEN <<>> ELSE Insert(Head(s), Sorted(Tail(s)))

RECURSIVE SeqMax(_)
SeqMax(s) ==
    IF Len(s) = 1 THEN s[1]
    ELSE LET m == SeqMax(Tail(s)) IN IF Head(s) > m THEN Head(s) ELSE m

RECURSIVE SeqMin(_)
SeqMin(s) ==
    IF Len(s) = 1 THEN s[1]
    ELSE LET m == SeqMin(Tail(s)) IN IF Head(s) < m THEN Head(s) ELSE m

RECURSIVE SeqSum(_)
SeqSum(s) == IF s = <<>> THEN 0 ELSE Head(s) + SeqSum(Tail(s))

RECURSIVE SelectRows(_, _)
SelectRows(s, keep) ==
    IF s = <<>> THEN <<>>
    ELSE IF keep[1] THEN <<Head(s)>> \o SelectRows(Tail(s), Tail(keep))
    ELSE SelectRows(Tail(s), Tail(keep))

Column(df, c) == [i \in 1..Len(df) |-> df[i][c]]

\* pandas Series.quantile(0.95), linear interpolation between order
\* statistics; NaN on an empty series
Quantile95(values) ==
    LET n == Len(values)
        v == Sorted(values)
        lo == ((n - 1) * 19) \div 20
        rem == ((n - 1) * 19) % 20
    IN IF n = 0 THEN NaN
       ELSE IF rem = 0 THEN Float(20 * v[lo + 1], 20)
       ELSE Float(20 * v[lo + 1] + rem * (v[lo + 2] - v[lo + 1]), 20)

\* ------------------------------------------------------------ text values
StartsWith(s, p) == Len(s) >= Len(p) /\ SubSeq(s, 1, Len(p)) = p

Contains(s, p) ==
    \E i \in 1..(Len(s) - Len(p) + 1) : SubSeq(s, i, i + Len(p) - 1) = p

EmptyCell == <<>>
CompleteReservation ==
    <<"C","o","m","p","l","e","t","e"," ","R","e","s","e","r","v","a","t","i","o","n">>
LabelSaga == CompleteReservation \o <<" ","(","S","a","g","a",")">>
LabelLogin == <<"L","o","g","i","n">>
Code200 == <<"2","0","0">>
Code400 == <<"4","0","0">>
Code500 == <<"5","0","0">>


\* ------------------------------------------- analyze_performance.py: data
JTL_FILES ==
    ("Competitive_10" :> "load-test/results/stress_test_10t/results.jtl") @@
    ("Competitive_100" :> "load-test/results/stress_test_100t/results.jtl") @@
    ("Competitive_1000" :> "load-test/results/stress_test_1000t/results.jtl") @@
    ("MaxTPS_1000" :> "load-test/results/max_throughput_1000t/results.jtl")

RequiredColumns == {"timeStamp", "elapsed", "label", "responseCode"}

Row(t, e, l, c) == [timeStamp |-> t, elapsed |-> e, label |-> l, responseCode |-> c]

\* a file of the file system: absent, or a delimited table with a header
File(ex, cols, rows) == [exists |-> ex, columns |-> cols, rows |-> rows]
MissingFile == File(FALSE, {}, <<>>)

None == [none |-> TRUE, dict |-> <<>>]
Some(d) == [none |-> FALSE, dict |-> d]
\* Python truth value of process_jtl's return value (None or a dict)
Truthy(v) == ~v.none /\ DOMAIN v.dict # {}

NoFrame ==
    [df |-> <<>>, df_success |-> <<>>, latency_95th |-> NaN,
     total_time_s |-> Zero, throughput |-> Zero, success_count |-> 0,
     total_count |-> 0, success_rate |-> Zero, returned |-> FALSE]

\* DataFrame column 'responseCode' after astype(str): read_csv infers int64
\* when every cell is an integer, float64 when some cell is empty
ResponseCodeAsStr(raw, cell) ==
    IF \A i \in 1..Len(raw) : raw[i].responseCode # EmptyCell THEN cell
    ELSE IF cell = EmptyCell THEN <<"n","a","n">>
    ELSE cell \o <<".","0">>

\* df[df['label'].str.contains('Complete Reservation', na=False)]
LabelFilter(raw) ==
    SelectRows(raw, [i \in 1..Len(raw) |->
        raw[i].label # EmptyCell /\ Contains(raw[i].label, CompleteReservation)])

SuccessFilterOfUnfiltered(raw, df) ==
    SelectRows(raw, [i \in 1..Len(raw) |->
        StartsWith(ResponseCodeAsStr(raw, raw[i].responseCode), Code200)])

\* df[df['responseCode'].astype(str).str.startswith('200')]
SuccessFilter(raw, df) ==
    SelectRows(df, [i \in 1..Len(df) |->
        StartsWith(ResponseCodeAsStr(raw, df[i].responseCode), Code200)])

TotalTimeSFromTimestampsOnly(df) ==
    IF Len(df) >= 1
    THEN Float(SeqMax(Column(df, "timeStamp")) - SeqMin(Column(df, "timeStamp")), 1000)
    ELSE Zero

\* total_time_s of lines 31-36
TotalTimeS(df) ==
    IF Len(df) > 1
    THEN Float(SeqMax(Column(df, "timeStamp")) - SeqMin(Column(df, "timeStamp")), 1000)
    ELSE IF Len(df) = 1 THEN Float(df[1].elapsed, 1000)
    ELSE Zero

ThroughputUnguarded(df, total_time_s) ==
    FloatDiv(Float(Len(df), 1), total_time_s)

\* throughput of line 38
Throughput(df, total_time_s) ==
    IF total_time_s.num > 0 THEN FloatDiv(Float(Len(df), 1), total_time_s) ELSE Zero

\* the exception raised inside the try block, "none" when it completes
ProcessJtlRaises(file) ==
    LET raw == file.rows
        df == LabelFilter(raw)
    IN IF ~file.exists THEN "FileNotFoundError"
       ELSE IF "label" \notin file.columns THEN "Exception"
       ELSE IF Len(raw) > 0 /\ \A i \in 1..Len(raw) : raw[i].label = EmptyCell
            THEN "Exception"
       ELSE IF "responseCode" \notin file.columns THEN "Exception"
       ELSE IF "elapsed" \notin file.columns THEN "Exception"
       ELSE IF Len(df) > 1 /\ "timeStamp" \notin file.columns THEN "Exception"
       ELSE "none"

\* the local variables of process_jtl when the try block completes
ProcessJtlFrame(file) ==
    LET raw == file.rows
        df == LabelFilter(raw)
        df_success == SuccessFilter(raw, df)
        latency_95th == FloatDiv(Quantile95(Column(df, "elapsed")), Float(1000, 1))
        total_time_s == TotalTimeS(df)
        throughput == Throughput(df, total_time_s)
        success_count == Len(df_success)
        total_count == Len(df)
        success_rate ==
            IF total_count > 0 THEN Float(success_count * 100, total_count) ELSE Zero
    IN [df |-> df, df_success |-> df_success, latency_95th |-> latency_95th,
        total_time_s |-> total_time_s, throughput |-> throughput,
        success_count |-> success_count, total_count |-> total_count,
        success_rate |-> success_rate, returned |-> TRUE]

\* 'Competitive' in test_name, for the scenario names of JTL_FILES
IsCompetitive(test_name) ==
    test_name \in {"Competitive_10", "Competitive_100", "Competitive_1000"}

Msg(m, a) == [msg |-> m, arg |-> a]

\* process_jtl(test_name, jtl_path): return value, what it printed, locals
process_jtl(test_name, jtl_path, files) ==
    LET file == files[jtl_path]
        raised == ProcessJtlRaises(file)
        f == ProcessJtlFrame(file)
    IN IF raised = "FileNotFoundError"
       THEN [value |-> None, frame |-> NoFrame,
             printed |-> <<Msg("WARNING: File not found", jtl_path)>>]
       ELSE IF raised = "Exception"
       THEN [value |-> None, frame |-> NoFrame,
             printed |-> <<Msg("ERROR occurred while processing", jtl_path)>>]
       ELSE [value |-> Some(("Scenario" :> test_name) @@
                            ("Success Count" :> f.success_count) @@
                            ("Success Rate (%)" :> f.success_rate) @@
                            ("95th Latency (s)" :> f.latency_95th) @@
                            ("Overall Throughput (TPS)" :> f.throughput)),
             frame |-> f,
             printed |-> IF IsCompetitive(test_name)
                         THEN <<Msg("VALIDATION", test_name)>> ELSE <<>>]

\* ------------------------------------------------------------------ state
VARIABLES
    jtl_files,    \* the run-name -> path mapping, as the sequence of its items
    fs,           \* file system: path -> file
    pc,           \* position of the script
    i,            \* index of the next item of jtl_files.items()
    results,      \* visualize_stress_test_results: results
    frame,        \* locals of the latest process_jtl call
    stdout,       \* what was printed, in order
    out_files,    \* files written by the script
    exit_code,    \* process exit status; -1 while running
    argv,         \* analyze.py: sys.argv
    self_df,      \* analyze.py: JMeterAnalyzer.df (rows), <<>> while None
    locals,       \* analyze.py: run_analysis locals and its return value
    bottlenecks,  \* analyze.py: detect_bottlenecks' bottlenecks series
    distribution  \* analyze.py: analyze_latency_distribution's distribution

process_vars == <<fs, pc, stdout, out_files, exit_code>>
batch_vars == <<jtl_files, i, results, frame>>
analyzer_vars == <<argv, self_df, locals, bottlenecks, distribution>>
vars == <<process_vars, batch_vars, analyzer_vars>>

NoLocals == [tps |-> <<>>, response_time_series |-> <<>>, threshold |-> NaN, success |-> FALSE]

\* ------------------------------ analyze_performance.py: the driver's steps
\* __main__, lines 173-189, up to the start of the loop of line 73
MainStart ==
    /\ pc = "main"
    /\ stdout' = stdout \o <<Msg("Starting Performance Analysis Script", "")>>
    /\ results' = <<>>
    /\ i' = 1
    /\ pc' = "loop"
    /\ UNCHANGED <<jtl_files, fs, frame, out_files, exit_code, analyzer_vars>>

LoopIterStopsAtFailure ==
    /\ pc = "loop"
    /\ i <= Len(jtl_files)
    /\ LET r == process_jtl(jtl_files[i][1], jtl_files[i][2], fs)
       IN /\ results' = IF Truthy(r.value) THEN Append(results, r.value.dict) ELSE results
          /\ frame' = r.frame
          /\ stdout' = stdout \o r.printed
          /\ i' = IF Truthy(r.value) THEN i + 1 ELSE Len(jtl_files) + 1
    /\ UNCHANGED <<jtl_files, fs, pc, out_files, exit_code, analyzer_vars>>

\* one iteration of the loop of lines 73-76
LoopIter ==
    /\ pc = "loop"
    /\ i <= Len(jtl_files)
    /\ LET r == process_jtl(jtl_files[i][1], jtl_files[i][2], fs)
       IN /\ results' = IF Truthy(r.value) THEN Append(results, r.value.dict) ELSE results
          /\ frame' = r.frame
          /\ stdout' = stdout \o r.printed
    /\ i' = i + 1
    /\ UNCHANGED <<jtl_files, fs, pc, out_files, exit_code, analyzer_vars>>

\* lines 78-80: the loop is over and nothing was collected
NoResults ==
    /\ pc = "loop"
    /\ i > Len(jtl_files)
    /\ results = <<>>
    /\ stdout' = stdout \o <<Msg("No stress test results found. Please check JTL files.", "")>>
    /\ pc' = "main_after"
    /\ UNCHANGED <<jtl_files, fs, i, results, frame, out_files, exit_code, analyzer_vars>>

\* lines 82-170: the charts and the CSV
Render ==
    /\ pc = "loop"
    /\ i > Len(jtl_files)
    /\ results # <<>>
    /\ out_files' = out_files \cup
          (IF \E k \in 1..Len(results) : IsCompetitive(results[k]["Scenario"])
           THEN {"concurrency_success_count_proof.png"} ELSE {}) \cup
          {"final_performance_comparison.png", "final_stress_test_metrics.csv"}
    /\ stdout' = stdout \o <<Msg("Final Metrics CSV", "")>>
    /\ pc' = "main_after"
    /\ UNCHANGED <<jtl_files, fs, i, results, frame, exit_code, analyzer_vars>>

\* lines 191-193, then the interpreter falls off the end of the script
MainEnd ==
    /\ pc = "main_after"
    /\ stdout' = stdout \o <<Msg("All visualization tasks completed.", "")>>
    /\ exit_code' = 0
    /\ pc' = "done"
    /\ UNCHANGED <<jtl_files, fs, i, results, frame, out_files, analyzer_vars>>

Next == MainStart \/ LoopIter \/ NoResults \/ Render \/ MainEnd

\* ------------------------------------------- analyze.py: JMeterAnalyzer
ARow(t, e, ok) ==
    [timeStamp |-> t, elapsed |-> e, label |-> LabelSaga, responseCode |-> Code200,
     success |-> ok]

FloatAdd(a, b) ==
    IF a.nan \/ b.nan THEN NaN ELSE Float(a.num * b.den + b.num * a.den, a.den * b.den)

ResampleFromEarliest(df, rule) ==
    IF df = <<>> THEN <<>>
    ELSE LET ts == Column(df, "timeStamp")
             first == SeqMin(ts)
             n == (SeqMax(ts) - first) \div rule
         IN [k \in 1..(n + 1) |->
               LET start == first + (k - 1) * rule
               IN [start |-> start,
                   values |-> Column(SelectRows(df, [r \in 1..Len(df) |->
                                 start <= ts[r] /\ ts[r] < start + rule]), "elapsed")]]

\* Series.resample(rule) on the timeStamp index: consecutive bins of `rule'
\* milliseconds, closed on the left, aligned to multiples of the rule, from
\* the bin of the earliest row to the bin of the latest; each bin holds the
\* elapsed values of its rows
Resample(df, rule) ==
    IF df = <<>> THEN <<>>
    ELSE LET ts == Column(df, "timeStamp")
             first == SeqMin(ts) \div rule
             last == SeqMax(ts) \div rule
         IN [k \in 1..(last - first + 1) |->
               LET start == (first + k - 1) * rule
               IN [start |-> start,
                   values |-> Column(SelectRows(df, [r \in 1..Len(df) |->
                                 start <= ts[r] /\ ts[r] < start + rule]), "elapsed")]]

MeanOfZeroFilled(values) ==
    IF values = <<>> THEN Zero ELSE Float(SeqSum(values), Len(values))

\* mean of one bin: NaN when no row falls in it
MeanOf(values) ==
    IF values = <<>> THEN NaN ELSE Float(SeqSum(values), Len(values))

RECURSIVE SumSkipNaN(_)
SumSkipNaN(series) ==
    IF series = <<>> THEN Zero
    ELSE IF Head(series).value.nan THEN SumSkipNaN(Tail(series))
    ELSE FloatAdd(Head(series).value, SumSkipNaN(Tail(series)))

\* Series.mean(): NaN entries are skipped; NaN when nothing is left
SeriesMean(series) ==
    LET n == Cardinality({k \in 1..Len(series) : ~series[k].value.nan})
    IN IF n = 0 THEN NaN ELSE FloatDiv(SumSkipNaN(series), Float(n, 1))

\* lines 126-130
ResponseTimeSeries(df) ==
    LET bins5s == Resample(df, 5000)
    IN [k \in 1..Len(bins5s) |->
          [start |-> bins5s[k].start, value |-> MeanOf(bins5s[k].values)]]

Threshold(series) ==
    LET m == SeriesMean(series) IN IF m.nan THEN NaN ELSE Float(m.num * 2, m.den)

Bottlenecks(series, threshold) ==
    SelectRows(series, [k \in 1..Len(series) |-> FloatGt(series[k].value, threshold)])

\* line 68: number of rows per 1-second bin
Tps(df) ==
    LET bins1s == Resample(df, 1000)
    IN [k \in 1..Len(bins1s) |-> Len(bins1s[k].values)]

\* lines 149-151; the last bin edge of the source is float('inf')
bins == <<0, 50, 100, 200, 500, 1000, 2000>>
labels == <<"0-50ms", "50-100ms", "100-200ms", "200-500ms", "500-1000ms", "1-2s", ">2s">>

InBinLeftClosed(x, j) == bins[j] <= x /\ (j = Len(bins) \/ x < bins[j + 1])

\* pd.cut(x, bins, labels): bin j is (bins[j], bins[j+1]], closed on the
\* right; a value in no bin is NaN
InBin(x, j) == bins[j] < x /\ (j = Len(bins) \/ x <= bins[j + 1])

Cut(x) ==
    IF \E j \in 1..Len(bins) : InBin(x, j)
    THEN labels[CHOOSE j \in 1..Len(bins) : InBin(x, j)]
    ELSE "NaN"

\* value_counts().sort_index() of the categorical column: one count per
\* label, in label order; NaN is not counted
ValueCounts(col) ==
    [j \in 1..Len(labels) |-> Cardinality({r \in 1..Len(col) : col[r] = labels[j]})]

\* ---------------------------------------------------- analyze.py: steps
JtlFile == fs[argv[2]]

\* an uncaught exception of a step of run_analysis: KeyError on a missing
\* column; on a table without rows the outcome of the statistics depends on
\* the pandas version, so both outcomes are kept
Raises(column, emptyMayRaise) ==
    IF column \notin JtlFile.columns THEN {TRUE}
    ELSE IF emptyMayRaise /\ self_df = <<>> THEN {TRUE, FALSE}
    ELSE {FALSE}

\* main, lines 287-300
Main ==
    /\ pc = "analyze_main"
    /\ IF Len(argv) < 2
       THEN /\ stdout' = stdout \o <<Msg("usage: python3 analyze.py <jtl_file_path>", "")>>
            /\ exit_code' = 1
            /\ pc' = "done"
       ELSE IF ~JtlFile.exists
       THEN /\ stdout' = stdout \o <<Msg("file not found", argv[2])>>
            /\ exit_code' = 1
            /\ pc' = "done"
       ELSE /\ pc' = "load_data"
            /\ UNCHANGED <<stdout, exit_code>>
    /\ UNCHANGED <<fs, out_files, batch_vars, analyzer_vars>>

\* load_data, lines 27-41, and the test of line 262
LoadData ==
    /\ pc = "load_data"
    /\ IF JtlFile.columns = {}
       THEN \* read_csv raises on a file without a header
            /\ self_df' = self_df
            /\ stdout' = stdout \o <<Msg("loading", argv[2]), Msg("file load failed", "")>>
            /\ pc' = "sys_exit"
       ELSE IF "timeStamp" \in JtlFile.columns
       THEN /\ self_df' = JtlFile.rows
            /\ stdout' = stdout \o <<Msg("loading", argv[2]), Msg("requests loaded", "")>>
            /\ pc' = "print_summary"
       ELSE \* pd.to_datetime raises KeyError inside the try block
            /\ self_df' = JtlFile.rows
            /\ stdout' = stdout \o <<Msg("loading", argv[2]), Msg("requests loaded", ""),
                                     Msg("file load failed", "")>>
            /\ pc' = "sys_exit"
    /\ UNCHANGED <<fs, out_files, exit_code, batch_vars, argv, locals, bottlenecks,
                   distribution>>

\* print_summary, lines 43-60
PrintSummary ==
    /\ pc = "print_summary"
    /\ \E raise \in Raises("elapsed", TRUE) :
         /\ stdout' = stdout \o <<Msg("Response Time Statistics", "")>>
         /\ pc' = IF raise THEN "traceback" ELSE "analyze_tps"
         /\ UNCHANGED <<self_df, locals, bottlenecks, distribution, out_files>>
    /\ UNCHANGED <<fs, exit_code, batch_vars, argv>>

\* analyze_tps, lines 62-75
AnalyzeTps ==
    /\ pc = "analyze_tps"
    /\ stdout' = stdout \o <<Msg("TPS (Transactions Per Second)", "")>>
    /\ locals' = [locals EXCEPT !.tps = Tps(self_df)]
    /\ pc' = "analyze_success_rate"
    /\ UNCHANGED <<fs, out_files, exit_code, batch_vars, argv, self_df, bottlenecks,
                   distribution>>

\* analyze_success_rate, lines 77-98
AnalyzeSuccessRate ==
    /\ pc = "analyze_success_rate"
    /\ \E raise \in Raises("success", TRUE) :
         /\ stdout' = stdout \o <<Msg("Success Rate", "")>>
         /\ pc' = IF raise THEN "traceback" ELSE "analyze_by_endpoint"
         /\ UNCHANGED <<self_df, locals, bottlenecks, distribution, out_files>>
    /\ UNCHANGED <<fs, exit_code, batch_vars, argv>>

\* analyze_by_endpoint, lines 100-117
AnalyzeByEndpoint ==
    /\ pc = "analyze_by_endpoint"
    /\ \E raise \in Raises("label", FALSE) :
         /\ stdout' = stdout \o <<Msg("Performance by Endpoint", "")>>
         /\ pc' = IF raise THEN "traceback" ELSE "detect_bottlenecks"
         /\ UNCHANGED <<self_df, locals, bottlenecks, distribution, out_files>>
    /\ UNCHANGED <<fs, exit_code, batch_vars, argv>>

\* detect_bottlenecks, lines 119-141
DetectBottlenecks ==
    /\ pc = "detect_bottlenecks"
    /\ LET response_time_series == ResponseTimeSeries(self_df)
           threshold == Threshold(response_time_series)
       IN /\ bottlenecks' = Bottlenecks(response_time_series, threshold)
          /\ locals' = [locals EXCEPT !.response_time_series = response_time_series,
                                      !.threshold = threshold]
          /\ stdout' = stdout \o
                <<Msg("Bottleneck Detection", ""),
                  IF Len(bottlenecks') > 0 THEN Msg("bottlenecks found", "")
                  ELSE Msg("no bottleneck", "")>>
    /\ pc' = "analyze_latency_distribution"
    /\ UNCHANGED <<fs, out_files, exit_code, batch_vars, argv, self_df, distribution>>

\* analyze_latency_distribution, lines 143-160
AnalyzeLatencyDistribution ==
    /\ pc = "analyze_latency_distribution"
    /\ self_df' = [r \in 1..Len(self_df) |->
                     [timeStamp |-> self_df[r].timeStamp, elapsed |-> self_df[r].elapsed,
                      label |-> self_df[r].label, responseCode |-> self_df[r].responseCode,
                      success |-> self_df[r].success,
                      latency_bin |-> Cut(self_df[r].elapsed)]]
    /\ distribution' = ValueCounts(Column(self_df', "latency_bin"))
    /\ stdout' = stdout \o <<Msg("Latency Distribution", "")>>
    \* line 158 divides by len(self.df) and line 159 converts the quotient
    \* to int: on a table without rows this raises
    /\ pc' = IF self_df = <<>> THEN "traceback" ELSE "create_graphs"
    /\ UNCHANGED <<fs, out_files, exit_code, batch_vars, argv, locals, bottlenecks>>

\* create_graphs, lines 162-230
CreateGraphs ==
    /\ pc = "create_graphs"
    /\ out_files' = out_files \cup {"performance_analysis.png"}
    /\ stdout' = stdout \o <<Msg("graph saved", "performance_analysis.png")>>
    /\ pc' = "generate_report"
    /\ UNCHANGED <<fs, exit_code, batch_vars, analyzer_vars>>

\* generate_report, lines 232-258, and lines 274-282
GenerateReport ==
    /\ pc = "generate_report"
    /\ out_files' = out_files \cup {"analysis_report.txt"}
    /\ stdout' = stdout \o <<Msg("report saved", "analysis_report.txt"),
                             Msg("analysis complete", "")>>
    /\ locals' = [locals EXCEPT !.success = TRUE]
    /\ pc' = "sys_exit"
    /\ UNCHANGED <<fs, exit_code, batch_vars, argv, self_df, bottlenecks, distribution>>

SysExitAlwaysZero ==
    /\ pc = "sys_exit"
    /\ exit_code' = 0
    /\ pc' = "done"
    /\ UNCHANGED <<fs, stdout, out_files, batch_vars, analyzer_vars>>

\* line 303: sys.exit(0 if success else 1)
SysExit ==
    /\ pc = "sys_exit"
    /\ exit_code' = IF locals.success THEN 0 ELSE 1
    /\ pc' = "done"
    /\ UNCHANGED <<fs, stdout, out_files, batch_vars, analyzer_vars>>

\* an exception that nothing catches: the interpreter prints the traceback
\* and exits with status 1
Traceback ==
    /\ pc = "traceback"
    /\ stdout' = stdout \o <<Msg("Traceback (most recent call last)", "")>>
    /\ exit_code' = 1
    /\ pc' = "done"
    /\ UNCHANGED <<fs, out_files, batch_vars, analyzer_vars>>

NextAnalyze ==
    \/ Main \/ LoadData \/ PrintSummary \/ AnalyzeTps \/ AnalyzeSuccessRate
    \/ AnalyzeByEndpoint \/ DetectBottlenecks \/ AnalyzeLatencyDistribution
    \/ CreateGraphs \/ GenerateReport \/ SysExit \/ Traceback

\* ----------------------------------------------------------- initial states
AllColumns == RequiredColumns \cup {"success"}

Saga(t, e, c) == Row(t, e, LabelSaga, c)

\* the rows a log is built from
RowDomain ==
    {Saga(t, e, c) : t \in {1000, 3000}, e \in {0, 500}, c \in {Code200, Code400, Code500}}
    \cup {Saga(2000, 200, Code200), Saga(1000, 500, EmptyCell),
          Row(1000, 500, LabelLogin, Code200), Row(3000, 0, EmptyCell, Code400)}

SeqsUpTo(S, n) == UNION {[1..k -> S] : k \in 0..n}

\* the files a batch is run on
BatchFiles ==
    {MissingFile,
     File(TRUE, AllColumns \ {"label"}, <<>>),
     File(TRUE, AllColumns, <<>>),
     File(TRUE, AllColumns, <<Saga(1000, 500, Code200)>>),
     File(TRUE, AllColumns, <<Saga(1000, 0, Code400), Saga(3000, 500, Code200)>>)}

Names == DOMAIN JTL_FILES

\* the scenario names of the mapping of lines 181-187
JTL_FILES_TO_RUN == {"Competitive_100", "MaxTPS_1000"}

\* the item sequences of a dict: every key at most once
Mappings(n) ==
    {m \in SeqsUpTo(Names, n) : \A a, b \in 1..Len(m) : a # b => m[a] # m[b]}

Items(m) == [k \in 1..Len(m) |-> <<m[k], JTL_FILES[m[k]]>>]

InitCommon ==
    /\ pc = "main"
    /\ i = 0
    /\ results = <<>>
    /\ frame = NoFrame
    /\ stdout = <<>>
    /\ out_files = {}
    /\ exit_code = -1
    /\ argv = <<>>
    /\ self_df = <<>>
    /\ locals = NoLocals
    /\ bottlenecks = <<>>
    /\ distribution = <<>>

NoFiles == [p \in {JTL_FILES[n] : n \in Names} |-> MissingFile]

\* a batch of up to MaxRuns runs
Init ==
    /\ \E m \in Mappings(MaxRuns) :
         /\ jtl_files = Items(m)
         /\ \E content \in [1..Len(m) -> BatchFiles] :
              fs = [p \in DOMAIN NoFiles |->
                      IF \E k \in 1..Len(m) : JTL_FILES[m[k]] = p
                      THEN content[CHOOSE k \in 1..Len(m) : JTL_FILES[m[k]] = p]
                      ELSE MissingFile]
    /\ InitCommon

Spec == Init /\ [][Next]_vars

\* a batch of one run over every log of up to MaxRecords rows
InitSummarize ==
    /\ \E n \in JTL_FILES_TO_RUN, cols \in {AllColumns, AllColumns \ {"timeStamp"}},
          rows \in SeqsUpTo(RowDomain, MaxRecords) :
         /\ jtl_files = <<<<n, JTL_FILES[n]>>>>
         /\ fs = [NoFiles EXCEPT ![JTL_FILES[n]] = File(TRUE, cols, rows)]
    /\ InitCommon

SpecSummarize == InitSummarize /\ [][Next]_vars

\* the path of the usage text, line 290
AnalyzePath == "load-test/results/20240315_120000/results.jtl"

\* the files analyze.py is run on: absent, without header, without one of
\* the columns, or one of the given tables
FileVariants(tables) ==
    {MissingFile, File(TRUE, {}, <<>>)}
    \cup {File(TRUE, AllColumns \ {c}, <<ARow(1000, 100, TRUE)>>) :
            c \in {"timeStamp", "elapsed", "success", "label"}}
    \cup {File(TRUE, AllColumns, rows) : rows \in tables}

InitAnalyzer(tables) ==
    /\ pc = "analyze_main"
    /\ \E a \in {<<"analyze.py">>, <<"analyze.py", AnalyzePath>>},
          f \in FileVariants(tables) :
         /\ argv = a
         /\ fs = (AnalyzePath :> f)
    /\ jtl_files = <<>>
    /\ i = 0
    /\ results = <<>>
    /\ frame = NoFrame
    /\ stdout = <<>>
    /\ out_files = {}
    /\ exit_code = -1
    /\ self_df = <<>>
    /\ locals = NoLocals
    /\ bottlenecks = <<>>
    /\ distribution = <<>>

\* analyze.py on logs of up to MaxRecords rows
InitAnalyze ==
    InitAnalyzer(SeqsUpTo({ARow(t, e, ok) : t \in {1000, 7000}, e \in {0, 100},
                                           ok \in BOOLEAN}, MaxRecords))

SpecAnalyze == InitAnalyze /\ [][NextAnalyze]_vars

\* logs whose latencies lie on, between and beyond the bin edges
InitBuckets ==
    InitAnalyzer(SeqsUpTo({ARow(1000, e, TRUE) :
                             e \in {0, 1, 50, 51, 100, 200, 500, 1000, 2000, 2001}},
                          MaxRecords))

SpecBuckets == InitBuckets /\ [][NextAnalyze]_vars

\* logs spread over the 5-second bins starting at 0, 5000 and 15000
InitWindows ==
    InitAnalyzer(SeqsUpTo({ARow(t, e, TRUE) : t \in {0, 4000, 6000, 16000},
                                             e \in {0, 100, 500}}, MaxRecords))

SpecWindows == InitWindows /\ [][NextAnalyze]_vars

\* ------------------------------------------------------------------ claims
\* number of items of jtl_files the loop has gone through
Processed == IF pc = "main" THEN 0 ELSE i - 1

RunCompletes(k) == ProcessJtlRaises(fs[jtl_files[k][2]]) = "none"

\* the processed runs whose file neither is missing nor makes pandas raise
UsableRuns ==
    SelectRows(SubSeq(jtl_files, 1, Processed), [k \in 1..Processed |-> RunCompletes(k)])

\* C1: the results collected by the driver are exactly the summaries of the
\* processed runs that did not fail, in mapping order, wherever the failing
\* runs are; a failing run never stops the loop.
C1_FailedRunsSkipped ==
    /\ results = [k \in 1..Len(UsableRuns) |->
                    process_jtl(UsableRuns[k][1], UsableRuns[k][2], fs).value.dict]
    /\ pc \in {"main_after", "done"} => Processed = Len(jtl_files)

\* a finished batch whose first and last runs failed around a usable one
C1_Witness ==
    /\ pc = "done"
    /\ Len(jtl_files) = 3
    /\ ~RunCompletes(1) /\ RunCompletes(2) /\ ~RunCompletes(3)
    /\ Len(results) = 1
    /\ results[1]["Scenario"] = jtl_files[2][1]

\* C2: a batch that ends with no usable run exits with a non-zero code.
C2_NoUsableRunExitsNonZero ==
    (pc = "done" /\ jtl_files # <<>> /\ results = <<>>) => exit_code # 0

Printed(m) == \E k \in 1..Len(stdout) : stdout[k].msg = m

\* load_data has started, so have the analysis steps
AnalysisStarted == Printed("loading")

\* run_analysis went through load, summaries, graphs and report
AllStepsCompleted ==
    /\ Printed("requests loaded") /\ ~Printed("file load failed")
    /\ Printed("Response Time Statistics") /\ Printed("TPS (Transactions Per Second)")
    /\ Printed("Success Rate") /\ Printed("Performance by Endpoint")
    /\ Printed("Bottleneck Detection") /\ Printed("Latency Distribution")
    /\ Printed("graph saved") /\ Printed("report saved")
    /\ ~Printed("Traceback (most recent call last)")
    /\ out_files = {"performance_analysis.png", "analysis_report.txt"}

\* C3: analyze.py exits with 1 when the path argument is absent or names no
\* file, before any analysis step and before any output file; it exits with
\* 0 exactly when run_analysis completed every step, and with 1 when the
\* load failed.
C3_ExitCodes ==
    /\ (Len(argv) < 2 \/ ~fs[argv[2]].exists) =>
          /\ ~AnalysisStarted
          /\ out_files = {}
          /\ pc = "done" => exit_code = 1
    /\ pc = "done" =>
          /\ exit_code \in {0, 1}
          /\ exit_code = 0 <=> AllStepsCompleted
          /\ Printed("file load failed") => exit_code = 1
    /\ pc # "done" => exit_code = -1

\* an existing log that does not load
C3_Witness ==
    /\ pc = "done"
    /\ Len(argv) = 2
    /\ fs[argv[2]].exists
    /\ Printed("file load failed")
    /\ exit_code = 1
    /\ out_files = {}

\* a complete analysis
C3_Completed == pc = "done" /\ exit_code = 0 /\ AllStepsCompleted

\* C4: process_jtl on an empty filtered record set returns count 0,
\* throughput 0 and a 95th-percentile latency of 0, never NaN.
C4_EmptySummaryAllZero ==
    (frame.returned /\ frame.df = <<>>) =>
        /\ frame.total_count = 0
        /\ FloatEq(frame.throughput, Zero)
        /\ ~frame.latency_95th.nan
        /\ FloatEq(frame.latency_95th, Zero)

TimeStampsOf(df) == {df[k].timeStamp : k \in 1..Len(df)}
Greatest(S) == CHOOSE x \in S : \A y \in S : y <= x
Least(S) == CHOOSE x \in S : \A y \in S : x <= y

\* C5: durationSeconds is (max - min timestamp) / 1000 for more than one
\* filtered record, elapsed / 1000 of the only record for exactly one, and 0
\* for none.
C5_DurationSeconds ==
    frame.returned =>
        LET df == frame.df
        IN /\ Len(df) > 1 =>
                FloatEq(frame.total_time_s,
                        Float(Greatest(TimeStampsOf(df)) - Least(TimeStampsOf(df)), 1000))
           /\ Len(df) = 1 => FloatEq(frame.total_time_s, Float(df[1].elapsed, 1000))
           /\ Len(df) = 0 => FloatEq(frame.total_time_s, Zero)
           /\ (Len(df) = 1 /\ df[1].elapsed = 500) =>
                FloatEq(frame.total_time_s, Float(1, 2))

\* timestamps 1000, 2000, 3000 give 2.0 seconds
C5_Witness ==
    /\ frame.returned
    /\ Column(frame.df, "timeStamp") = <<1000, 2000, 3000>>
    /\ FloatEq(frame.total_time_s, Float(2, 1))

\* C6: throughput is total count / duration when the duration is positive
\* and 0 otherwise; it is always a defined, non-negative number.
C6_Throughput ==
    frame.returned =>
        /\ ~frame.throughput.nan
        /\ frame.throughput.den > 0
        /\ frame.throughput.num >= 0
        /\ IF FloatGt(frame.total_time_s, Zero)
           THEN frame.throughput.num * frame.total_time_s.num =
                    frame.total_count * frame.total_time_s.den * frame.throughput.den
           ELSE frame.throughput.num = 0

\* 3 records, 2 of them successful, over 2.0 s: 1.5 per second
C6_Witness ==
    /\ frame.returned
    /\ frame.total_count = 3
    /\ frame.success_count = 2
    /\ FloatEq(frame.total_time_s, Float(2, 1))
    /\ FloatEq(frame.throughput, Float(3, 2))

\* several records that share one timestamp: duration 0, throughput 0
C6_SameTimestamp ==
    /\ frame.returned
    /\ frame.total_count > 1
    /\ Cardinality(TimeStampsOf(frame.df)) = 1
    /\ frame.throughput.num = 0

\* expectedFailure class: rows whose responseCode text starts with "400"
ExpectedFailureFilter(raw, df) ==
    SelectRows(df, [k \in 1..Len(df) |->
        StartsWith(ResponseCodeAsStr(raw, df[k].responseCode), Code400)])

RawOfFrame == fs[jtl_files[Processed][2]].rows

\* C7: for a non-empty filtered record set, successCount +
\* expectedFailureCount <= totalCount; no record is in both classes and the
\* records with another code are in neither.
C7_ClassCounts ==
    (frame.returned /\ frame.df # <<>>) =>
        LET df == frame.df
            ef == ExpectedFailureFilter(RawOfFrame, df)
            other == {k \in 1..Len(df) :
                        LET c == ResponseCodeAsStr(RawOfFrame, df[k].responseCode)
                        IN ~StartsWith(c, Code200) /\ ~StartsWith(c, Code400)}
        IN /\ frame.success_count + Len(ef) <= frame.total_count
           /\ frame.success_count + Len(ef) + Cardinality(other) = frame.total_count
           /\ frame.total_count = Len(df)

\* one record of each kind: a 200, a 400 and a 500
C7_Witness ==
    /\ frame.returned
    /\ frame.total_count = 3
    /\ frame.success_count = 1
    /\ Len(ExpectedFailureFilter(RawOfFrame, frame.df)) = 1

\* analyze_latency_distribution has run
Binned == distribution # <<>>

\* C8: the bucket counts add up to the number of records, also for a record
\* with elapsed = 0.
C8_BucketCountsSumToInput ==
    Binned => SeqSum(distribution) = Len(self_df)

BinStarting(b) == labels[CHOOSE j \in 1..Len(bins) : bins[j] = b]
BinEnding(b) == labels[(CHOOSE j \in 1..Len(bins) : bins[j] = b) - 1]
InnerEdges == {bins[j] : j \in 2..Len(bins)}

\* C9 as claimed: a record whose elapsed equals an edge between two buckets
\* is counted in the bucket that starts at that edge.
C9_LeftClosedBuckets ==
    Binned =>
        \A r \in 1..Len(self_df) :
            self_df[r].elapsed \in InnerEdges =>
                self_df[r].latency_bin = BinStarting(self_df[r].elapsed)

\* C9 amended: the buckets are closed on the right; a record whose elapsed
\* equals an edge between two buckets is counted in the bucket that ends at
\* that edge, and a record strictly above an edge and not above the next one
\* is in the bucket between them.
C9_RightClosedBuckets ==
    Binned =>
        \A r \in 1..Len(self_df) :
            LET e == self_df[r].elapsed
            IN /\ e \in InnerEdges =>
                    /\ self_df[r].latency_bin = BinEnding(e)
                    /\ self_df[r].latency_bin # BinStarting(e)
               /\ \A j \in 1..(Len(bins) - 1) :
                    (bins[j] < e /\ e <= bins[j + 1]) => self_df[r].latency_bin = labels[j]
               /\ e > bins[Len(bins)] => self_df[r].latency_bin = ">2s"

\* elapsed 50 counted in 0-50ms and elapsed 2000 in 1-2s
C9_Witness ==
    /\ Binned
    /\ \E r \in 1..Len(self_df) :
         self_df[r].elapsed = 50 /\ self_df[r].latency_bin = "0-50ms"
    /\ \E r \in 1..Len(self_df) :
         self_df[r].elapsed = 2000 /\ self_df[r].latency_bin = "1-2s"
    /\ distribution[1] >= 1 /\ distribution[6] >= 1

\* detect_bottlenecks has run
Detected ==
    \/ pc \in {"analyze_latency_distribution", "create_graphs", "generate_report"}
    \/ pc \in {"sys_exit", "done"} /\ locals.success

WindowMs == 5000
WindowsOf(df) == {df[r].timeStamp \div WindowMs : r \in 1..Len(df)}
CountIn(df, w) == Cardinality({r \in 1..Len(df) : df[r].timeStamp \div WindowMs = w})
SumIn(df, w) ==
    SeqSum([r \in 1..Len(df) |->
              IF df[r].timeStamp \div WindowMs = w THEN df[r].elapsed ELSE 0])

RECURSIVE CountProduct(_, _)
CountProduct(df, W) ==
    IF W = {} THEN 1
    ELSE LET w == CHOOSE x \in W : TRUE IN CountIn(df, w) * CountProduct(df, W \ {w})

\* the mean of window w times the product of all window sizes
ScaledMean(df, w) == SumIn(df, w) * (CountProduct(df, WindowsOf(df)) \div CountIn(df, w))

RECURSIVE ScaledSum(_, _)
ScaledSum(df, W) ==
    IF W = {} THEN 0
    ELSE LET w == CHOOSE x \in W : TRUE IN ScaledMean(df, w) + ScaledSum(df, W \ {w})

\* mean of w > 2 * (sum of the means of the non-empty windows / their number)
Anomalous(df, w) ==
    ScaledMean(df, w) * Cardinality(WindowsOf(df)) > 2 * ScaledSum(df, WindowsOf(df))

C10_EmptyWindowsIgnored ==
    /\ Detected
    /\ Len(locals.response_time_series) = 4
    /\ locals.response_time_series[2].value.nan
    /\ FloatEq(locals.response_time_series[1].value, Float(100, 1))
    /\ FloatEq(locals.response_time_series[4].value, Float(500, 1))
    /\ bottlenecks = <<>>

Earliest(df) == Least(TimeStampsOf(df))

\* the rows less than one window length after the earliest row
NearEarliest(df) ==
    {r \in 1..Len(df) : df[r].timeStamp < Earliest(df) + WindowMs}

SumOver(df, R) == SeqSum([r \in 1..Len(df) |-> IF r \in R THEN df[r].elapsed ELSE 0])

\* C11 as claimed: the first window starts at the earliest timestamp and
\* window k starts k window lengths later, so the rows less than a window
\* length after the earliest row are together in the first window.
C11_WindowsFromEarliest ==
    (Detected /\ self_df # <<>>) =>
        LET series == locals.response_time_series
        IN /\ \A k \in 1..Len(series) :
                 series[k].start = Earliest(self_df) + (k - 1) * WindowMs
           /\ FloatEq(series[1].value,
                      Float(SumOver(self_df, NearEarliest(self_df)),
                            Cardinality(NearEarliest(self_df))))

\* C11 amended: the windows are aligned to the multiples of the window
\* length: the first starts at the greatest multiple not above the earliest
\* timestamp, window k starts k window lengths later and holds the rows of
\* [start, start + window length); two rows share a window exactly when
\* their timestamps have the same quotient by the window length.
C11_WindowsFromMultiples ==
    (Detected /\ self_df # <<>>) =>
        LET series == locals.response_time_series
            first == (Earliest(self_df) \div WindowMs) * WindowMs
        IN /\ Len(series) = (Greatest(TimeStampsOf(self_df)) \div WindowMs)
                              - (Earliest(self_df) \div WindowMs) + 1
           /\ \A k \in 1..Len(series) :
                 /\ series[k].start = first + (k - 1) * WindowMs
                 /\ series[k].start % WindowMs = 0
                 /\ LET w == series[k].start \div WindowMs
                    IN IF CountIn(self_df, w) = 0 THEN series[k].value.nan
                       ELSE FloatEq(series[k].value,
                                    Float(SumIn(self_df, w), CountIn(self_df, w)))

\* rows at 4000 and 6000 only: 2 seconds apart, in the windows of 0 and 5000
C11_Witness ==
    /\ Detected
    /\ TimeStampsOf(self_df) = {4000, 6000}
    /\ Len(locals.response_time_series) = 2
    /\ locals.response_time_series[1].start = 0
    /\ locals.response_time_series[2].start = 5000
    /\ ~locals.response_time_series[2].value.nan

============================================================================
